---- MODULE Spec2Model ----
(***************************************************************************)
(* A model of ctSESAM's per-domain settings record (PasswordSetting.py)    *)
(* and of its sync client (SyncManager.py).                                *)
(*                                                                         *)
(* A Python str is a sequence of one-character strings; the character      *)
(* U+00A7 of the extra alphabet is written "sect".  Other Python values    *)
(* are tagged with their type: [t |-> type name, v |-> content].           *)
(* Every method of PasswordSetting is an operator from the object (a       *)
(* record of its attributes) and the arguments to the object after the     *)
(* call; an action applies one method to the variable `setting`.           *)
(* A method of SyncManager is an operator from the object and the          *)
(* temporary files of the system to the outcome of the call: the object    *)
(* and the files after it, what it returned or raised, the calls it made   *)
(* on the channel and what it printed.                                     *)
(***************************************************************************)
EXTENDS Integers, Sequences, FiniteSets, TLC

VARIABLES
    setting,    \* the PasswordSetting object: a record of its attributes
    pre,        \* the object as it was when the last call started (for a call
                \* of SyncManager: the object and the temporary files)
    op,         \* the last call: its name, its argument and what it returned
    clock,      \* the wall clock, in ticks: what datetime.now() returns
    manager,    \* the SyncManager object: a record of its attributes
    tempfiles   \* the files NamedTemporaryFile() has created, in order

vars == <<setting, pre, op, clock, manager, tempfiles>>

(***************************************************************************)
(* Bounds                                                                  *)
(***************************************************************************)
\* copies of the lower case alphabet used_characters may hold beyond the
\* first: set_use_upper_case(True) adds one with every call
MaxExtraLower == 1
\* the last tick of the clock
MaxTime == 4
\* ticks in a second: datetime.now() is finer than the date strings
TicksPerSecond == 2
\* the temporary files created in a run
MaxFiles == 3

(***************************************************************************)
(* Python values                                                           *)
(***************************************************************************)
None == [t |-> "NoneType", v |-> ""]
Str(s) == [t |-> "str", v |-> s]
Bytes(s) == [t |-> "bytes", v |-> s]
PyInt(n) == [t |-> "int", v |-> n]
Datetime(n) == [t |-> "datetime", v |-> n]

\* what a call that raises leaves in op.ret
Raised(exception) == [t |-> exception, v |-> ""]

\* a == b on two Python values: values of different types are never equal
PyEq(a, b) == a.t = b.t /\ a.v = b.v

\* bool(x): None, the empty str and the empty bytes are false
Truthy(x) == x.t # "NoneType" /\ x.v # ""

Min(a, b) == IF a < b THEN a ELSE b

\* s[:n] and s[n:] of a Python str s, for n >= 0
Take(s, n) == SubSeq(s, 1, Min(n, Len(s)))
Drop(s, n) == SubSeq(s, Min(n, Len(s)) + 1, Len(s))
\* s[a:b] for 0 <= a <= b
Slice(s, a, b) == SubSeq(s, Min(a, Len(s)) + 1, Min(b, Len(s)))

(***************************************************************************)
(* The default alphabets                                                   *)
(***************************************************************************)
DEFAULT_CHARACTER_SET_LOWER_CASE ==
    << "a", "b", "c", "d", "e", "f", "g", "h", "i", "j", "k", "l", "m",
       "n", "o", "p", "q", "r", "s", "t", "u", "v", "w", "x", "y", "z" >>
DEFAULT_CHARACTER_SET_UPPER_CASE ==
    << "A", "B", "C", "D", "E", "F", "G", "H", "J", "K", "L", "M", "N",
       "P", "Q", "R", "T", "U", "V", "W", "X", "Y", "Z" >>
DEFAULT_CHARACTER_SET_DIGITS ==
    << "0", "1", "2", "3", "4", "5", "6", "7", "8", "9" >>
DEFAULT_CHARACTER_SET_EXTRA ==
    << "#", "!", "\"", "sect", "$", "%", "&", "/", "(", ")", "[", "]",
       "{", "}", "=", "-", "_", "+", "*", "<", ">", ";", ":", "." >>
DEFAULT_SALT == Bytes("pepper")

get_default_character_set ==
    DEFAULT_CHARACTER_SET_LOWER_CASE \o DEFAULT_CHARACTER_SET_UPPER_CASE
        \o DEFAULT_CHARACTER_SET_DIGITS \o DEFAULT_CHARACTER_SET_EXTRA

(***************************************************************************)
(* The character set composer                                              *)
(***************************************************************************)
\* RemoveLoop with pos advanced after a cut as well: the character that
\* follows a cut one is not looked at
RECURSIVE RemoveLoopSkipping(_, _)
RemoveLoopSkipping(s, alphabet) ==
    IF s = << >> THEN s
    ELSE IF Head(s) \in {alphabet[i] : i \in 1..Len(alphabet)}
         THEN IF Len(s) = 1 THEN << >>
              ELSE << s[2] >> \o RemoveLoopSkipping(SubSeq(s, 3, Len(s)), alphabet)
         ELSE << Head(s) >> \o RemoveLoopSkipping(Tail(s), alphabet)

\* the loop of every set_use_*, started at pos = 0: it cuts s[pos] out of s
\* when s[pos] is in the alphabet and moves on when it is not, so that what
\* is left is the characters of s that are not in the alphabet, in their order
RemoveLoop(s, alphabet) ==
    LET chars == {alphabet[i] : i \in 1..Len(alphabet)}
        keep(c) == c \notin chars
    IN  SelectSeq(s, keep)

\* the end of a set_use_* that leaves synced as it is
MarkChangedSilently(self, old_character_set, used) ==
    [self EXCEPT !.used_characters = used]

\* the end of every set_use_*: synced is cleared when the set changed
MarkChanged(self, old_character_set, used) ==
    [self EXCEPT !.used_characters = used,
                 !.synced = IF old_character_set # used THEN FALSE ELSE @]

use_letters(self) ==
    Take(self.used_characters,
         Len(DEFAULT_CHARACTER_SET_LOWER_CASE \o DEFAULT_CHARACTER_SET_UPPER_CASE))
        = DEFAULT_CHARACTER_SET_LOWER_CASE \o DEFAULT_CHARACTER_SET_UPPER_CASE

set_use_letters(self, flag) ==
    LET removed == RemoveLoop(self.used_characters,
                       DEFAULT_CHARACTER_SET_LOWER_CASE \o DEFAULT_CHARACTER_SET_UPPER_CASE)
        used == IF flag
                THEN DEFAULT_CHARACTER_SET_LOWER_CASE \o DEFAULT_CHARACTER_SET_UPPER_CASE
                         \o removed
                ELSE removed
    IN  MarkChanged(self, self.used_characters, used)

use_lower_case(self) ==
    Take(self.used_characters, Len(DEFAULT_CHARACTER_SET_LOWER_CASE))
        = DEFAULT_CHARACTER_SET_LOWER_CASE

set_use_lower_case(self, flag) ==
    LET removed == RemoveLoop(self.used_characters, DEFAULT_CHARACTER_SET_LOWER_CASE)
        used == IF flag THEN DEFAULT_CHARACTER_SET_LOWER_CASE \o removed ELSE removed
    IN  MarkChanged(self, self.used_characters, used)

use_upper_case(self) ==
    Slice(self.used_characters, Len(DEFAULT_CHARACTER_SET_LOWER_CASE),
          Len(DEFAULT_CHARACTER_SET_LOWER_CASE \o DEFAULT_CHARACTER_SET_UPPER_CASE))
        = DEFAULT_CHARACTER_SET_UPPER_CASE

\* what is inserted is the lower case alphabet (line 215)
set_use_upper_case(self, flag) ==
    LET removed == RemoveLoop(self.used_characters, DEFAULT_CHARACTER_SET_UPPER_CASE)
        used == IF flag
                THEN Take(removed, Len(DEFAULT_CHARACTER_SET_LOWER_CASE))
                         \o DEFAULT_CHARACTER_SET_LOWER_CASE
                         \o Drop(removed, Len(DEFAULT_CHARACTER_SET_LOWER_CASE))
                ELSE removed
    IN  MarkChanged(self, self.used_characters, used)

use_digits(self) ==
    Slice(self.used_characters,
          Len(DEFAULT_CHARACTER_SET_LOWER_CASE \o DEFAULT_CHARACTER_SET_UPPER_CASE),
          Len(DEFAULT_CHARACTER_SET_LOWER_CASE \o DEFAULT_CHARACTER_SET_UPPER_CASE
                  \o DEFAULT_CHARACTER_SET_DIGITS))
        = DEFAULT_CHARACTER_SET_DIGITS

set_use_digits(self, flag) ==
    LET removed == RemoveLoop(self.used_characters, DEFAULT_CHARACTER_SET_DIGITS)
        at == Len(DEFAULT_CHARACTER_SET_LOWER_CASE \o DEFAULT_CHARACTER_SET_UPPER_CASE)
        used == IF flag
                THEN Take(removed, at) \o DEFAULT_CHARACTER_SET_DIGITS \o Drop(removed, at)
                ELSE removed
    IN  MarkChanged(self, self.used_characters, used)

use_extra(self) ==
    Drop(self.used_characters,
         Len(DEFAULT_CHARACTER_SET_LOWER_CASE \o DEFAULT_CHARACTER_SET_UPPER_CASE
                 \o DEFAULT_CHARACTER_SET_DIGITS))
        = DEFAULT_CHARACTER_SET_EXTRA

set_use_extra(self, flag) ==
    LET removed == RemoveLoop(self.used_characters, DEFAULT_CHARACTER_SET_EXTRA)
        used == IF flag THEN removed \o DEFAULT_CHARACTER_SET_EXTRA ELSE removed
    IN  MarkChanged(self, self.used_characters, used)

\* use_custom_character_set that compares the characters, not their order
use_custom_character_set_unordered(self) ==
    ~ ({self.used_characters[i] : i \in 1..Len(self.used_characters)}
           = {get_default_character_set[i] : i \in 1..Len(get_default_character_set)})

use_custom_character_set(self) ==
    ~ (self.used_characters = get_default_character_set)

get_character_set(self) == self.used_characters

set_custom_character_set(self, character_set) ==
    [self EXCEPT !.used_characters = character_set,
                 !.synced = IF self.used_characters # character_set THEN FALSE ELSE @]

(***************************************************************************)
(* Dates and salts                                                         *)
(***************************************************************************)
\* the date strings of the seconds 0, 1, 2, ... in the format
\* "%Y-%m-%dT%H:%M:%S"; a datetime is a number of ticks
DateStrings ==
    << "2015-07-01T12:00:00", "2015-07-01T12:00:01", "2015-07-01T12:00:02",
       "2015-07-01T12:00:03", "2015-07-01T12:00:04", "2015-07-01T12:00:05",
       "2015-07-01T12:00:06", "2015-07-01T12:00:07" >>

\* dt.strftime("%Y-%m-%dT%H:%M:%S"): the fraction of the second is dropped
strftime(dt) == Str(DateStrings[(dt.v \div TicksPerSecond) + 1])

\* datetime.strptime(s, "%Y-%m-%dT%H:%M:%S") raises ValueError
WellFormed(s) == \E i \in 1..Len(DateStrings) : DateStrings[i] = s.v

\* datetime.strptime(s, "%Y-%m-%dT%H:%M:%S") of a well-formed s
strptime(s) ==
    Datetime(((CHOOSE i \in 1..Len(DateStrings) : DateStrings[i] = s.v) - 1)
                 * TicksPerSecond)

\* base64 of the salts of the model
B64Table == << <<"pepper", "cGVwcGVy">>, <<"salt", "c2FsdA==">>, <<"", "">> >>

b64encode(b) ==
    Str(B64Table[CHOOSE i \in 1..Len(B64Table) : B64Table[i][1] = b.v][2])

b64decode(s) ==
    Bytes(B64Table[CHOOSE i \in 1..Len(B64Table) : B64Table[i][2] = s.v][1])

(***************************************************************************)
(* The settings record                                                     *)
(***************************************************************************)
\* PasswordSetting(domain), constructed at the time now
New(domain, now) ==
    [ domain |-> domain,
      url |-> None,
      username |-> None,
      legacy_password |-> None,
      notes |-> None,
      iterations |-> PyInt(4096),
      salt |-> DEFAULT_SALT,
      length |-> PyInt(10),
      creation_date |-> Datetime(now),
      modification_date |-> Datetime(now),
      used_characters |-> get_default_character_set,
      reserved |-> None,
      synced |-> FALSE ]

get_domain(self) == self.domain

set_domain(self, domain) ==
    [self EXCEPT !.domain = domain, !.synced = FALSE]

get_username(self) == IF Truthy(self.username) THEN self.username ELSE Str("")

set_username(self, username) ==
    [self EXCEPT !.username = username,
                 !.synced = IF ~ PyEq(username, self.username) THEN FALSE ELSE @]

get_legacy_password(self) ==
    IF Truthy(self.legacy_password) THEN self.legacy_password ELSE Str("")

set_legacy_password(self, legacy_password) ==
    [self EXCEPT !.legacy_password = legacy_password,
                 !.synced = IF ~ PyEq(legacy_password, self.legacy_password)
                            THEN FALSE ELSE @]

get_salt(self) == self.salt

\* set_salt raises TypeError and changes nothing
set_salt_raises(salt) == salt.t \notin {"bytes", "str"}

\* set_salt that clears synced before it raises
set_salt_marking(self, salt) ==
    IF salt.t = "bytes"
    THEN [self EXCEPT !.salt = salt,
                      !.synced = IF ~ PyEq(self.salt, salt) THEN FALSE ELSE @]
    ELSE IF salt.t = "str"
    THEN [self EXCEPT !.salt = Bytes(salt.v),
                      !.synced = IF ~ PyEq(self.salt, Bytes(salt.v)) THEN FALSE ELSE @]
    ELSE [self EXCEPT !.synced = FALSE]

set_salt(self, salt) ==
    IF salt.t = "bytes"
    THEN [self EXCEPT !.salt = salt,
                      !.synced = IF ~ PyEq(self.salt, salt) THEN FALSE ELSE @]
    ELSE IF salt.t = "str"
    THEN [self EXCEPT !.salt = Bytes(salt.v),
                      !.synced = IF ~ PyEq(self.salt, Bytes(salt.v)) THEN FALSE ELSE @]
    ELSE self

get_length(self) == self.length

\* set_length that takes a length equal to the stored one for a confirmation
\* and sets synced
set_length_confirming(self, length) ==
    [self EXCEPT !.length = length, !.synced = PyEq(self.length, length)]

set_length(self, length) ==
    [self EXCEPT !.length = length,
                 !.synced = IF ~ PyEq(self.length, length) THEN FALSE ELSE @]

get_iterations(self) == self.iterations

set_iterations(self, iterations) ==
    [self EXCEPT !.iterations = iterations,
                 !.synced = IF ~ PyEq(self.iterations, iterations) THEN FALSE ELSE @]

get_creation_date(self) == strftime(self.creation_date)

\* set_creation_date that corrects the creation date: a creation date later
\* than the modification date is replaced by the modification date
set_creation_date_pulled(self, creation_date, now) ==
    LET synced == IF ~ PyEq(self.creation_date, creation_date) THEN FALSE ELSE self.synced
        cdate == IF WellFormed(creation_date) THEN strptime(creation_date)
                 ELSE Datetime(now)
    IN  [self EXCEPT !.synced = synced,
                     !.creation_date = IF self.modification_date.v < cdate.v
                                       THEN self.modification_date ELSE cdate]

\* set_creation_date without the correction of the modification date
set_creation_date_uncorrected(self, creation_date, now) ==
    LET synced == IF ~ PyEq(self.creation_date, creation_date) THEN FALSE ELSE self.synced
        cdate == IF WellFormed(creation_date) THEN strptime(creation_date)
                 ELSE Datetime(now)
    IN  [self EXCEPT !.synced = synced, !.creation_date = cdate]

\* creation_date is a str; now is what datetime.now() returns if called
set_creation_date(self, creation_date, now) ==
    LET synced == IF ~ PyEq(self.creation_date, creation_date) THEN FALSE ELSE self.synced
        cdate == IF WellFormed(creation_date) THEN strptime(creation_date)
                 ELSE Datetime(now)
        mdate == IF self.modification_date.v < cdate.v THEN cdate
                 ELSE self.modification_date
    IN  [self EXCEPT !.synced = synced, !.creation_date = cdate,
                     !.modification_date = mdate]

\* set_modification_date without the correction of the creation date
set_modification_date_uncorrected(self, modification_date, now) ==
    LET synced == IF Truthy(modification_date)
                      /\ ~ PyEq(self.modification_date, modification_date)
                  THEN FALSE ELSE self.synced
        mdate == IF modification_date.t = "str" /\ WellFormed(modification_date)
                 THEN strptime(modification_date)
                 ELSE Datetime(now)
    IN  [self EXCEPT !.synced = synced, !.modification_date = mdate]

get_modification_date(self) == strftime(self.modification_date)

\* modification_date is a str or None (the default)
set_modification_date(self, modification_date, now) ==
    LET synced == IF Truthy(modification_date)
                      /\ ~ PyEq(self.modification_date, modification_date)
                  THEN FALSE ELSE self.synced
        mdate == IF modification_date.t = "str"
                 THEN IF WellFormed(modification_date) THEN strptime(modification_date)
                      ELSE Datetime(now)
                 ELSE Datetime(now)
        cdate == IF mdate.v < self.creation_date.v THEN mdate ELSE self.creation_date
    IN  [self EXCEPT !.synced = synced, !.modification_date = mdate,
                     !.creation_date = cdate]

get_notes(self) == IF Truthy(self.notes) THEN self.notes ELSE Str("")

set_notes(self, notes) ==
    [self EXCEPT !.notes = notes,
                 !.synced = IF ~ PyEq(notes, self.notes) THEN FALSE ELSE @]

get_url(self) == IF Truthy(self.url) THEN self.url ELSE Str("")

\* set_url that stores the url
set_url_storing(self, url) ==
    [self EXCEPT !.url = url,
                 !.synced = IF ~ PyEq(url, self.url) THEN FALSE ELSE @]

\* the url is compared and never stored
set_url(self, url) ==
    [self EXCEPT !.synced = IF ~ PyEq(url, self.url) THEN FALSE ELSE @]

get_reserved(self) == IF Truthy(self.reserved) THEN self.reserved ELSE Str("")

\* the reserved field is compared and never stored
set_reserved(self, reserved) ==
    [self EXCEPT !.synced = IF ~ PyEq(reserved, self.reserved) THEN FALSE ELSE @]

is_synced(self) == self.synced

set_synced(self, flag) == [self EXCEPT !.synced = flag]

\* the keys of a to_dict() that leaves out only what is None
to_dict_keys_not_none(self) ==
    {"domain", "iterations", "length", "cDate", "mDate", "usedCharacters"}
        \cup (IF get_url(self) # None THEN {"url"} ELSE {})
        \cup (IF get_username(self) # None THEN {"username"} ELSE {})
        \cup (IF get_legacy_password(self) # None THEN {"legacyPassword"} ELSE {})
        \cup (IF self.notes # None THEN {"notes"} ELSE {})
        \cup (IF self.salt # None THEN {"salt"} ELSE {})
        \cup (IF get_reserved(self) # None THEN {"reserved"} ELSE {})

\* the keys of to_dict()
to_dict_keys(self) ==
    {"domain", "iterations", "length", "cDate", "mDate", "usedCharacters"}
        \cup (IF Truthy(get_url(self)) THEN {"url"} ELSE {})
        \cup (IF Truthy(get_username(self)) THEN {"username"} ELSE {})
        \cup (IF Truthy(get_legacy_password(self)) THEN {"legacyPassword"} ELSE {})
        \cup (IF Truthy(self.notes) THEN {"notes"} ELSE {})
        \cup (IF Truthy(self.salt) THEN {"salt"} ELSE {})
        \cup (IF Truthy(get_reserved(self)) THEN {"reserved"} ELSE {})

to_dict(self) ==
    [ k \in to_dict_keys(self) |->
        CASE k = "domain" -> get_domain(self)
          [] k = "url" -> get_url(self)
          [] k = "username" -> get_username(self)
          [] k = "legacyPassword" -> get_legacy_password(self)
          [] k = "notes" -> get_notes(self)
          [] k = "iterations" -> get_iterations(self)
          [] k = "salt" -> b64encode(get_salt(self))
          [] k = "length" -> get_length(self)
          [] k = "cDate" -> get_creation_date(self)
          [] k = "mDate" -> get_modification_date(self)
          [] k = "usedCharacters" -> get_character_set(self)
          [] k = "reserved" -> get_reserved(self) ]

\* one line of load_from_dict: the setter is called when the key is there
\* now1 and now2 are the times of the calls of set_creation_date and
\* set_modification_date
load_from_dict(self, loaded_setting, now1, now2) ==
    LET has(k) == k \in DOMAIN loaded_setting
        s1 == IF has("url") THEN set_url(self, loaded_setting["url"]) ELSE self
        s2 == IF has("username") THEN set_username(s1, loaded_setting["username"]) ELSE s1
        s3 == IF has("legacyPassword")
              THEN set_legacy_password(s2, loaded_setting["legacyPassword"]) ELSE s2
        s4 == IF has("notes") THEN set_notes(s3, loaded_setting["notes"]) ELSE s3
        s5 == IF has("iterations")
              THEN set_iterations(s4, loaded_setting["iterations"]) ELSE s4
        s6 == IF has("salt") THEN set_salt(s5, b64decode(loaded_setting["salt"])) ELSE s5
        s7 == IF has("length") THEN set_length(s6, loaded_setting["length"]) ELSE s6
        s8 == IF has("cDate")
              THEN set_creation_date(s7, loaded_setting["cDate"], now1) ELSE s7
        s9 == IF has("mDate")
              THEN set_modification_date(s8, loaded_setting["mDate"], now2) ELSE s8
        s10 == IF has("usedCharacters")
               THEN set_custom_character_set(s9, loaded_setting["usedCharacters"]) ELSE s9
    IN  IF has("reserved") THEN set_reserved(s10, loaded_setting["reserved"]) ELSE s10

(***************************************************************************)
(* The sync client                                                         *)
(*                                                                         *)
(* The classes Sync (the channel) and Packer (the compressor) are          *)
(* imported by SyncManager.py: a Sync object is the record of what it was  *)
(* constructed from, and Packer.decompress undoes Packer.compress.         *)
(***************************************************************************)
\* bool(x) of None and of an object of a class that defines neither
\* __bool__ nor __len__: only None is false
IsSet(x) == x.t # "NoneType"

\* the keys of the sync settings
SyncKeys == {"server-address", "username", "password", "certificate"}

\* a dict, a list and a tuple of two
Dict(f) == [t |-> "dict", v |-> f]
List(s) == [t |-> "list", v |-> s]
Tuple(a, b) == [t |-> "tuple", v |-> <<a, b>>]

\* json.dumps(obj): the str that is the JSON text of obj
json_dumps(obj) == [t |-> "json", v |-> obj]
\* json.loads(s) raises ValueError: s is not a JSON text
json_loads_raises(s) == s.t # "json"
json_loads(s) == s.v

\* s.encode('utf-8') of a str s and str(b, encoding='utf-8') of those bytes:
\* the bytes of a text are written as the text, tagged; the empty str gives
\* the empty bytes
encode(s) == IF s.t = "str" /\ s.v = "" THEN Bytes("") ELSE [t |-> "utf-8", v |-> s]
decode(b) == IF b.t = "utf-8" THEN b.v ELSE Str(b.v)

\* Packer.compress(b), and Packer.decompress(data), which undoes it; bytes
\* that are not the result of compress are not decompressed
compress(b) == [t |-> "compressed", v |-> b]
decompress_raises(data) == data.t # "compressed"
decompress(data) == data.v

\* Sync(server_address, username, password, certificate_path)
Sync(server_address, username, password, certificate_path) ==
    [ t |-> "Sync",
      v |-> [ server_address |-> server_address,
              username |-> username,
              password |-> password,
              certificate_path |-> certificate_path ] ]

\* a call of a method of the channel handle
ChannelCall(sync, method, arg) == [sync |-> sync, method |-> method, arg |-> arg]

\* a file object; its number stands for its name
File(n) == [t |-> "file", v |-> n]

\* NamedTemporaryFile(): a new, open, empty file
NamedTemporaryFile(files) ==
    Append(files, [closed |-> FALSE, buffered |-> Bytes(""), data |-> Bytes("")])

\* f.write(b) on a file opened just before: b waits in the buffer
write(files, f, b) == [files EXCEPT ![f.v].buffered = b]

\* f.seek(0) writes the buffer to the file, which was empty
seek(files, f) ==
    [files EXCEPT ![f.v].data = files[f.v].buffered, ![f.v].buffered = Bytes("")]

\* f.close(): a temporary file is deleted when it is closed
close(files, f) ==
    [files EXCEPT ![f.v] = [closed |-> TRUE, buffered |-> Bytes(""), data |-> Bytes("")]]

\* SyncManager()
NewManager ==
    [ server_address |-> Str(""),
      username |-> Str(""),
      password |-> Str(""),
      certificate |-> Str(""),
      certificate_file |-> None,
      sync |-> None ]

\* the outcome of a call: the object and the files after it, what the call
\* returned (or raised), the calls it made on the channel, what it printed
Outcome(self, files, ret, called, printed) ==
    [ manager |-> self, tempfiles |-> files, ret |-> ret, called |-> called,
      printed |-> printed ]

\* __del__
del(self, files) ==
    Outcome(self,
            IF IsSet(self.certificate_file) THEN close(files, self.certificate_file)
            ELSE files,
            None, << >>, << >>)

\* get_binary_sync_settings with the user name and the password exchanged
get_binary_sync_settings_exchanged(self, files) ==
    Outcome(self, files,
            IF IsSet(self.sync)
            THEN compress(encode(json_dumps(Dict(
                     [ k \in SyncKeys |->
                         CASE k = "server-address" -> self.server_address
                           [] k = "username" -> self.password
                           [] k = "password" -> self.username
                           [] k = "certificate" -> self.certificate ]))))
            ELSE Bytes(""),
            << >>, << >>)

get_binary_sync_settings(self, files) ==
    Outcome(self, files,
            IF IsSet(self.sync)
            THEN compress(encode(json_dumps(Dict(
                     [ k \in SyncKeys |->
                         CASE k = "server-address" -> self.server_address
                           [] k = "username" -> self.username
                           [] k = "password" -> self.password
                           [] k = "certificate" -> self.certificate ]))))
            ELSE Bytes(""),
            << >>, << >>)

create_sync(self) ==
    [self EXCEPT !.sync = Sync(self.server_address, self.username, self.password,
                               self.certificate_file.v)]

\* the settings are complete: what load_binary_sync_settings does with them
store_sync_settings(self, files, settings_dict) ==
    LET assigned ==
            [self EXCEPT !.server_address = settings_dict.v["server-address"],
                         !.username = settings_dict.v["username"],
                         !.password = settings_dict.v["password"],
                         !.certificate = settings_dict.v["certificate"]]
        closed == IF IsSet(self.certificate_file)
                  THEN close(files, self.certificate_file) ELSE files
        created == NamedTemporaryFile(closed)
        opened == [assigned EXCEPT !.certificate_file = File(Len(created))]
    IN  \* only a str has encode
        IF opened.certificate.t # "str"
        THEN Outcome(opened, created, Raised("AttributeError"), << >>, << >>)
        ELSE Outcome(create_sync(opened),
                     seek(write(created, opened.certificate_file,
                                encode(opened.certificate)),
                          opened.certificate_file),
                     None, << >>, << >>)

\* load_binary_sync_settings that forgets the channel handle when the
\* settings are not complete
load_binary_sync_settings_forgetting(self, files, data) ==
    IF decompress_raises(data) THEN Outcome(self, files, Raised("error"), << >>, << >>)
    ELSE IF json_loads_raises(decode(decompress(data)))
    THEN Outcome(self, files, Raised("ValueError"), << >>, << >>)
    ELSE
    LET settings_dict == json_loads(decode(decompress(data)))
    IN  IF settings_dict.t \notin {"dict", "list"}
        THEN Outcome(self, files, Raised("TypeError"), << >>, << >>)
        ELSE IF settings_dict.t = "dict" /\ SyncKeys \subseteq DOMAIN settings_dict.v
        THEN store_sync_settings(self, files, settings_dict)
        ELSE Outcome([self EXCEPT !.sync = None], files, None, << >>,
                     << "Sync settings konnten nicht geladen werden." >>)

\* load_binary_sync_settings that takes the user name of settings that are
\* not complete
load_binary_sync_settings_partial(self, files, data) ==
    IF decompress_raises(data) THEN Outcome(self, files, Raised("error"), << >>, << >>)
    ELSE IF json_loads_raises(decode(decompress(data)))
    THEN Outcome(self, files, Raised("ValueError"), << >>, << >>)
    ELSE
    LET settings_dict == json_loads(decode(decompress(data)))
    IN  IF settings_dict.t \notin {"dict", "list"}
        THEN Outcome(self, files, Raised("TypeError"), << >>, << >>)
        ELSE IF settings_dict.t = "dict" /\ SyncKeys \subseteq DOMAIN settings_dict.v
        THEN store_sync_settings(self, files, settings_dict)
        ELSE Outcome(IF settings_dict.t = "dict" /\ "username" \in DOMAIN settings_dict.v
                     THEN [self EXCEPT !.username = settings_dict.v["username"]]
                     ELSE self,
                     files, None, << >>,
                     << "Sync settings konnten nicht geladen werden." >>)

\* data is bytes
load_binary_sync_settings(self, files, data) ==
    IF decompress_raises(data) THEN Outcome(self, files, Raised("error"), << >>, << >>)
    ELSE IF json_loads_raises(decode(decompress(data)))
    THEN Outcome(self, files, Raised("ValueError"), << >>, << >>)
    ELSE
    LET settings_dict == json_loads(decode(decompress(data)))
    IN  \* `in` on a number raises; on a list it looks for an element
        IF settings_dict.t \notin {"dict", "list"}
        THEN Outcome(self, files, Raised("TypeError"), << >>, << >>)
        ELSE IF settings_dict.t = "dict" /\ SyncKeys \subseteq DOMAIN settings_dict.v
        THEN store_sync_settings(self, files, settings_dict)
        ELSE Outcome(self, files, None, << >>,
                     << "Sync settings konnten nicht geladen werden." >>)

\* pull that asks the channel whether there is a handle or not
pull_unguarded(self, files, answer) ==
    Outcome(self, files, answer, << ChannelCall(self.sync, "pull", None) >>, << >>)

\* answer is what self.sync.pull() returns if called
pull(self, files, answer) ==
    IF IsSet(self.sync)
    THEN Outcome(self, files, answer, << ChannelCall(self.sync, "pull", None) >>, << >>)
    ELSE Outcome(self, files, Tuple(FALSE, Str("")), << >>, << >>)

\* answer is what self.sync.push(data) returns if called; the u-umlaut of
\* the message is written ue
push(self, files, data, answer) ==
    IF IsSet(self.sync)
    THEN Outcome(self, files, None, << ChannelCall(self.sync, "push", data) >>,
                 IF ~ answer THEN << "Synchronisation fehlgeschlagen." >> ELSE << >>)
    ELSE Outcome(self, files, None, << >>,
                 << "Sie haben keine gueltigen Einstellungen fuer den sync server." >>)

(***************************************************************************)
(* The arguments the calls are made with                                   *)
(***************************************************************************)
Domains == {Str("example.com"), Str("example.org")}
Usernames == {None, Str(""), Str("alice")}
Passwords == {None, Str("secret")}
Notes == {None, Str("a note")}
Urls == {None, Str(""), Str("https://example.com")}
Reserved == {None, Str("r")}
Iterations == {PyInt(4096), PyInt(1)}
Lengths == {PyInt(10), PyInt(16)}
\* bytes, str, and a value that is neither
Salts == {Bytes("pepper"), Bytes("salt"), Bytes(""), Str("salt"), PyInt(7)}

MaxSecond == MaxTime \div TicksPerSecond
\* the well-formed date strings, a malformed one and the empty one
DateArgs ==
    {Str(DateStrings[i + 1]) : i \in 0..MaxSecond} \cup {Str("01.07.2015"), Str("")}

\* the default set; the default set with its first two letters exchanged; a
\* short set of a character of no class and one character of each class,
\* none of them where its class belongs
CustomSets ==
    { get_default_character_set,
      << "b", "a" >> \o Drop(get_default_character_set, 2),
      << "I", "7", "Z", "#", "a" >> }

\* character sets for the tests of use_X(): the default set; the default set
\* followed by a character of no class; the default set with two lower case
\* letters, or two digits, exchanged in their window; the default set with
\* 26 characters of the other classes in the place of the lower case letters
WindowSets ==
    { get_default_character_set,
      get_default_character_set \o << "~" >>,
      << "b", "a" >> \o Drop(get_default_character_set, 2),
      Take(get_default_character_set, 49) \o << "1", "0" >>
          \o Drop(get_default_character_set, 51),
      DEFAULT_CHARACTER_SET_EXTRA \o << "0", "1" >>
          \o Drop(get_default_character_set, 26) }

Occurrences(s, c) == Cardinality({i \in 1..Len(s) : s[i] = c})

\* the bound on the growth of used_characters
WithinBound(self) ==
    Occurrences(self.used_characters, "a") <= 1 + MaxExtraLower

\* two complete sync settings
SettingsA ==
    [ k \in SyncKeys |->
        CASE k = "server-address" -> Str("https://a.example")
          [] k = "username" -> Str("alice")
          [] k = "password" -> Str("secret")
          [] k = "certificate" -> Str("CERT A") ]

SettingsB ==
    [ k \in SyncKeys |->
        CASE k = "server-address" -> Str("https://b.example")
          [] k = "username" -> Str("bob")
          [] k = "password" -> Str("hunter2")
          [] k = "certificate" -> Str("CERT B") ]

\* the dict f without the key k
Without(f, k) == [j \in DOMAIN f \ {k} |-> f[j]]

\* the bytes of a JSON value, compressed
Pack(obj) == compress(encode(json_dumps(obj)))

\* the data load_binary_sync_settings is called with: complete settings;
\* settings that lack one key or all keys; complete settings whose
\* certificate is a number; a list and a number in the place of the dict;
\* compressed bytes that are not JSON; bytes that are not compressed
Payloads ==
    { Pack(Dict(SettingsA)), Pack(Dict(SettingsB)) }
        \cup { Pack(Dict(Without(SettingsA, k))) : k \in SyncKeys }
        \cup { Pack(Dict([k \in {} |-> None])),
               Pack(Dict([SettingsB EXCEPT !["certificate"] = PyInt(7)])),
               Pack(List(<< >>)),
               Pack(PyInt(7)),
               compress(encode(Str("not json"))),
               Bytes("junk"),
               Bytes("") }

\* what the channel's pull() returns
PullAnswers == { Tuple(TRUE, Bytes("blob")), Tuple(FALSE, Str("")) }

\* the data push is called with
PushData == { Bytes("blob") }

(***************************************************************************)
(* The calls                                                               *)
(***************************************************************************)
\* a call that does not read the clock
Call(name, arg, after) ==
    /\ setting' = after
    /\ pre' = setting
    /\ op' = [name |-> name, arg |-> arg, ret |-> None]
    /\ UNCHANGED <<clock, manager, tempfiles>>

\* a call during which the clock advances to now
TimedCall(name, arg, after, now) ==
    /\ setting' = after
    /\ pre' = setting
    /\ op' = [name |-> name, arg |-> arg, ret |-> None]
    /\ clock' = now
    /\ UNCHANGED <<manager, tempfiles>>

SetUseLetters ==
    \E flag \in BOOLEAN :
        \E after \in {set_use_letters(setting, flag)} :
            Call("set_use_letters", flag, after)

SetUseLowerCase ==
    \E flag \in BOOLEAN :
        \E after \in {set_use_lower_case(setting, flag)} :
            Call("set_use_lower_case", flag, after)

SetUseUpperCase ==
    \E flag \in BOOLEAN :
        \E after \in {set_use_upper_case(setting, flag)} :
            WithinBound(after) /\ Call("set_use_upper_case", flag, after)

SetUseDigits ==
    \E flag \in BOOLEAN :
        \E after \in {set_use_digits(setting, flag)} :
            Call("set_use_digits", flag, after)

SetUseExtra ==
    \E flag \in BOOLEAN :
        \E after \in {set_use_extra(setting, flag)} :
            Call("set_use_extra", flag, after)

SetCustomCharacterSet ==
    \E character_set \in CustomSets :
        Call("set_custom_character_set", character_set,
             set_custom_character_set(setting, character_set))

SetWindowSet ==
    \E character_set \in WindowSets :
        Call("set_custom_character_set", character_set,
             set_custom_character_set(setting, character_set))

SetDomain ==
    \E domain \in Domains : Call("set_domain", domain, set_domain(setting, domain))

SetUsername ==
    \E username \in Usernames :
        Call("set_username", username, set_username(setting, username))

SetLegacyPassword ==
    \E legacy_password \in Passwords :
        Call("set_legacy_password", legacy_password,
             set_legacy_password(setting, legacy_password))

SetNotes ==
    \E notes \in Notes : Call("set_notes", notes, set_notes(setting, notes))

SetUrl ==
    \E url \in Urls : Call("set_url", url, set_url(setting, url))

SetReserved ==
    \E reserved \in Reserved :
        Call("set_reserved", reserved, set_reserved(setting, reserved))

SetIterations ==
    \E iterations \in Iterations :
        Call("set_iterations", iterations, set_iterations(setting, iterations))

SetLength ==
    \E length \in Lengths : Call("set_length", length, set_length(setting, length))

SetSalt ==
    \E salt \in Salts :
        /\ setting' = set_salt(setting, salt)
        /\ pre' = setting
        /\ op' = [name |-> "set_salt", arg |-> salt,
                  ret |-> IF set_salt_raises(salt) THEN Raised("TypeError") ELSE None]
        /\ UNCHANGED <<clock, manager, tempfiles>>

SetCreationDate ==
    \E creation_date \in DateArgs, now \in clock..MaxTime :
        TimedCall("set_creation_date", creation_date,
                  set_creation_date(setting, creation_date, now), now)

SetModificationDate ==
    \E modification_date \in DateArgs \cup {None}, now \in clock..MaxTime :
        TimedCall("set_modification_date", modification_date,
                  set_modification_date(setting, modification_date, now), now)

SetSynced ==
    \E flag \in BOOLEAN : Call("set_synced", flag, set_synced(setting, flag))

ToDict ==
    /\ pre' = setting
    /\ op' = [name |-> "to_dict", arg |-> None, ret |-> to_dict(setting)]
    /\ UNCHANGED <<setting, clock, manager, tempfiles>>

\* the dicts load_from_dict is called with that hold dates only
DateDicts ==
    UNION { [keys -> DateArgs] : keys \in SUBSET {"cDate", "mDate"} }

LoadDates ==
    \E loaded_setting \in DateDicts, now1 \in clock..MaxTime :
        \E now2 \in now1..MaxTime :
            TimedCall("load_from_dict", loaded_setting,
                      load_from_dict(setting, loaded_setting, now1, now2), now2)

\* a value load_from_dict is given for a key
SampleValue(k) ==
    CASE k = "url" -> Str("https://example.com")
      [] k = "username" -> Str("alice")
      [] k = "legacyPassword" -> Str("secret")
      [] k = "notes" -> Str("a note")
      [] k = "iterations" -> PyInt(1)
      [] k = "salt" -> b64encode(Bytes("salt"))
      [] k = "length" -> PyInt(16)
      [] k = "reserved" -> Str("r")

FieldKeys ==
    { "url", "username", "legacyPassword", "notes", "iterations", "salt",
      "length", "reserved" }

\* the dicts load_from_dict is called with that hold no dates: no key, one
\* key, or all of them
FieldDicts ==
    { [k \in keys |-> SampleValue(k)] :
        keys \in {ks \in SUBSET FieldKeys : Cardinality(ks) <= 1} \cup {FieldKeys} }

LoadFields ==
    \E loaded_setting \in FieldDicts :
        Call("load_from_dict", loaded_setting,
             load_from_dict(setting, loaded_setting, clock, clock))

\* the round trip: the dict to_dict() has just returned is loaded into a
\* fresh PasswordSetting of the same domain, which takes the place of setting
RoundTrip ==
    /\ op.name = "to_dict"
    /\ \E now \in clock..MaxTime :
          /\ setting' = load_from_dict(New(setting.domain, now), op.ret, now, now)
          /\ clock' = now
    /\ pre' = setting
    /\ op' = [name |-> "round_trip", arg |-> op.ret, ret |-> None]
    /\ UNCHANGED <<manager, tempfiles>>

\* a call of a method of the SyncManager object
ManagerCall(name, arg, out) ==
    /\ manager' = out.manager
    /\ tempfiles' = out.tempfiles
    /\ pre' = [manager |-> manager, tempfiles |-> tempfiles]
    /\ op' = [name |-> name, arg |-> arg, ret |-> out.ret, called |-> out.called,
              printed |-> out.printed]
    /\ UNCHANGED <<setting, clock>>

\* the object has not been deleted
Alive == op.name # "__del__"

\* data is one of Payloads or what get_binary_sync_settings has just returned
LoadBinarySyncSettings ==
    /\ Alive
    /\ \E data \in Payloads \cup (IF op.name = "get_binary_sync_settings"
                                   THEN {op.ret} ELSE {}) :
          \E out \in {load_binary_sync_settings(manager, tempfiles, data)} :
              /\ Len(out.tempfiles) <= MaxFiles
              /\ ManagerCall("load_binary_sync_settings", data, out)

GetBinarySyncSettings ==
    /\ Alive
    /\ ManagerCall("get_binary_sync_settings", None,
                   get_binary_sync_settings(manager, tempfiles))

Pull ==
    /\ Alive
    /\ \E answer \in PullAnswers :
          \E out \in {pull(manager, tempfiles, answer)} :
              ManagerCall("pull", None, out)

Push ==
    /\ Alive
    /\ \E data \in PushData, answer \in BOOLEAN :
          ManagerCall("push", data, push(manager, tempfiles, data, answer))

\* the object is deleted; no call follows
Del ==
    /\ Alive
    /\ ManagerCall("__del__", None, del(manager, tempfiles))

(***************************************************************************)
(* Specifications                                                          *)
(***************************************************************************)
\* a fresh record: PasswordSetting("example.com"), constructed at tick 0
Init ==
    /\ clock = 0
    /\ setting = New(Str("example.com"), clock)
    /\ pre = setting
    /\ op = [name |-> "__init__", arg |-> setting.domain, ret |-> None]
    /\ manager = NewManager
    /\ tempfiles = << >>

\* the character set composer
NextChars ==
    \/ SetUseLetters
    \/ SetUseLowerCase
    \/ SetUseUpperCase
    \/ SetUseDigits
    \/ SetUseExtra
    \/ SetCustomCharacterSet
    \/ SetSynced

SpecChars == Init /\ [][NextChars]_vars

\* the dates
NextDates ==
    \/ SetCreationDate
    \/ SetModificationDate
    \/ LoadDates
    \/ SetSynced

SpecDates == Init /\ [][NextDates]_vars

\* the other fields
NextFields ==
    \/ SetDomain
    \/ SetUsername
    \/ SetLegacyPassword
    \/ SetNotes
    \/ SetUrl
    \/ SetReserved
    \/ SetIterations
    \/ SetLength
    \/ SetSalt
    \/ SetSynced
    \/ ToDict
    \/ LoadFields

SpecFields == Init /\ [][NextFields]_vars

\* the round trip of to_dict and load_from_dict, from a record of any field
\* values (the attributes are public, and load_from_dict takes any dict) with
\* dates before or after the time the fresh record is constructed at
AnyRecord ==
    { [ domain |-> Str("example.com"),
        url |-> url,
        username |-> username,
        legacy_password |-> legacy_password,
        notes |-> notes,
        iterations |-> iterations,
        salt |-> salt,
        length |-> PyInt(10),
        creation_date |-> Datetime(dates[1]),
        modification_date |-> Datetime(dates[2]),
        used_characters |-> used_characters,
        reserved |-> reserved,
        synced |-> FALSE ] :
        url \in Urls, username \in Usernames, legacy_password \in Passwords,
        notes \in Notes, iterations \in Iterations,
        salt \in {x \in Salts : x.t = "bytes"},
        dates \in {d \in (0..MaxTime) \X (0..MaxTime) : d[1] <= d[2]},
        used_characters \in {get_default_character_set, << "I", "7", "Z", "#", "a" >>},
        reserved \in Reserved }

InitRoundTrip ==
    /\ clock = 0
    /\ setting \in AnyRecord
    /\ pre = setting
    /\ op = [name |-> "__init__", arg |-> setting.domain, ret |-> None]
    /\ manager = NewManager
    /\ tempfiles = << >>

NextRoundTrip ==
    \/ ToDict
    \/ RoundTrip

SpecRoundTrip == InitRoundTrip /\ [][NextRoundTrip]_vars

\* the four class toggles alone, from a fresh record
NextToggles ==
    \/ SetUseLowerCase
    \/ SetUseUpperCase
    \/ SetUseDigits
    \/ SetUseExtra

SpecToggles == Init /\ [][NextToggles]_vars

\* the tests use_X() on sets that differ from the default set in or around
\* the window of one class, and the toggles on them
NextWindow ==
    \/ SetWindowSet
    \/ SetUseLowerCase
    \/ SetUseUpperCase
    \/ SetUseDigits
    \/ SetUseExtra

SpecWindow == Init /\ [][NextWindow]_vars

\* the sync client, from a fresh SyncManager
InitSync ==
    /\ clock = 0
    /\ setting = New(Str("example.com"), clock)
    /\ manager = NewManager
    /\ tempfiles = << >>
    /\ pre = [manager |-> manager, tempfiles |-> tempfiles]
    /\ op = [name |-> "__init__", arg |-> None, ret |-> None, called |-> << >>,
             printed |-> << >>]

NextSync ==
    \/ LoadBinarySyncSettings
    \/ GetBinarySyncSettings
    \/ Pull
    \/ Push
    \/ Del

SpecSync == InitSync /\ [][NextSync]_vars

(***************************************************************************)
(* Properties of the character set composer                                *)
(***************************************************************************)
ToggleNames ==
    {"set_use_lower_case", "set_use_upper_case", "set_use_digits", "set_use_extra"}

\* the default alphabet of the class a toggle is about
AlphabetOf(name) ==
    CASE name = "set_use_lower_case" -> DEFAULT_CHARACTER_SET_LOWER_CASE
      [] name = "set_use_upper_case" -> DEFAULT_CHARACTER_SET_UPPER_CASE
      [] name = "set_use_digits" -> DEFAULT_CHARACTER_SET_DIGITS
      [] name = "set_use_extra" -> DEFAULT_CHARACTER_SET_EXTRA

\* use_X() for the class X a toggle is about
Uses(name, self) ==
    CASE name = "set_use_lower_case" -> use_lower_case(self)
      [] name = "set_use_upper_case" -> use_upper_case(self)
      [] name = "set_use_digits" -> use_digits(self)
      [] name = "set_use_extra" -> use_extra(self)

\* set_use_X(flag) for the class X a toggle is about
Toggle(name, self, flag) ==
    CASE name = "set_use_lower_case" -> set_use_lower_case(self, flag)
      [] name = "set_use_upper_case" -> set_use_upper_case(self, flag)
      [] name = "set_use_digits" -> set_use_digits(self, flag)
      [] name = "set_use_extra" -> set_use_extra(self, flag)

\* the canonical offset of the class a toggle is about: 0, 26, 49, 59
OffsetOf(name) ==
    CASE name = "set_use_lower_case" -> 0
      [] name = "set_use_upper_case" -> Len(DEFAULT_CHARACTER_SET_LOWER_CASE)
      [] name = "set_use_digits" ->
            Len(DEFAULT_CHARACTER_SET_LOWER_CASE \o DEFAULT_CHARACTER_SET_UPPER_CASE)
      [] name = "set_use_extra" ->
            Len(DEFAULT_CHARACTER_SET_LOWER_CASE \o DEFAULT_CHARACTER_SET_UPPER_CASE
                    \o DEFAULT_CHARACTER_SET_DIGITS)

CharsOf(alphabet) == {alphabet[i] : i \in 1..Len(alphabet)}

\* the characters of s that are not in the alphabet, in their order
Others(s, alphabet) ==
    LET foreign(c) == c \notin CharsOf(alphabet) IN SelectSeq(s, foreign)

\* no character of the class occurs outside the class's canonical window
NoneOutsideWindow(name, self) ==
    \A i \in 1..Len(self.used_characters) :
        self.used_characters[i] \in CharsOf(AlphabetOf(name))
            => /\ i > OffsetOf(name)
               /\ i <= OffsetOf(name) + Len(AlphabetOf(name))

\* C1: after set_use_X(True), reached by class toggles from a fresh record,
\* use_X() returns true, for each of the four classes.
C1_UsedAfterSetTrue ==
    (op.name \in ToggleNames /\ op.arg = TRUE) => Uses(op.name, setting)

\* C2: after set_use_X(False), whatever used_characters was, use_X() returns
\* false and used_characters holds no character of X's default alphabet.
C2_OffRemovesClass ==
    (op.name \in ToggleNames /\ op.arg = FALSE)
        => /\ ~ Uses(op.name, setting)
           /\ \A i \in 1..Len(setting.used_characters) :
                  setting.used_characters[i] \notin CharsOf(AlphabetOf(op.name))

\* a class is switched off in a set that never held it at its canonical
\* place, and a character of it is gone
C2_Witness ==
    /\ op.name = "set_use_digits"
    /\ op.arg = FALSE
    /\ pre.used_characters = << "I", "7", "Z", "#", "a" >>
    /\ setting.used_characters = << "I", "Z", "#", "a" >>

\* C3: when use_X() is true and no character of X lies outside X's window,
\* set_use_X(False) followed by set_use_X(True) gives back the sequence
\* used_characters had before the two calls.  Stated in the state after the
\* first call: the second call would give back what pre held.
C3_OffOnRestores ==
    (/\ op.name \in ToggleNames
     /\ op.arg = FALSE
     /\ Uses(op.name, pre)
     /\ NoneOutsideWindow(op.name, pre))
        => Toggle(op.name, setting, TRUE).used_characters = pre.used_characters

\* C4: class toggles are idempotent.  Stated in the state after a call of
\* set_use_X(b): the same call once more changes neither used_characters nor
\* synced.
C4_ToggleIdempotent ==
    op.name \in ToggleNames
        => LET again == Toggle(op.name, setting, op.arg)
           IN  /\ again.used_characters = setting.used_characters
               /\ again.synced = setting.synced

\* C5: set_use_X(b) leaves the characters that are not in X's default
\* alphabet as they were: the same characters, as often, in the same order.
C5_ToggleKeepsOthers ==
    op.name \in ToggleNames
        => Others(setting.used_characters, AlphabetOf(op.name))
               = Others(pre.used_characters, AlphabetOf(op.name))

\* C6: used_characters holds no character twice in any state reached from a
\* fresh record by class toggles.
C6_NoDuplicates ==
    \A i, j \in 1..Len(setting.used_characters) :
        i # j => setting.used_characters[i] # setting.used_characters[j]

(***************************************************************************)
(* Properties of the record                                                *)
(***************************************************************************)
\* the attributes of the record other than synced
Observable(self) == [self EXCEPT !.synced = FALSE]

\* the calls that are setters of an observable field
SetterNames ==
    ToggleNames \cup
    { "set_use_letters", "set_custom_character_set", "set_domain", "set_username",
      "set_legacy_password", "set_notes", "set_url", "set_reserved", "set_iterations",
      "set_length", "set_salt", "set_creation_date", "set_modification_date" }

\* C7: a setter call that changes the value of an observable field leaves
\* synced false, whatever synced was.
C7_ChangeClearsSynced ==
    (op.name \in SetterNames /\ Observable(setting) # Observable(pre))
        => ~ setting.synced

\* the argument of the setter call is the value the field has
ArgIsCurrent(name, arg, self) ==
    CASE name \in ToggleNames -> arg = Uses(name, self)
      [] name = "set_use_letters" -> arg = use_letters(self)
      [] name = "set_custom_character_set" -> arg = self.used_characters
      [] name = "set_domain" -> PyEq(arg, self.domain)
      [] name = "set_username" -> PyEq(arg, self.username)
      [] name = "set_legacy_password" -> PyEq(arg, self.legacy_password)
      [] name = "set_notes" -> PyEq(arg, self.notes)
      [] name = "set_url" -> PyEq(arg, self.url)
      [] name = "set_reserved" -> PyEq(arg, self.reserved)
      [] name = "set_iterations" -> PyEq(arg, self.iterations)
      [] name = "set_length" -> PyEq(arg, self.length)
      [] name = "set_salt" -> PyEq(arg, self.salt)
      [] name = "set_creation_date" -> PyEq(arg, get_creation_date(self))
      [] name = "set_modification_date" -> PyEq(arg, get_modification_date(self))

\* C8: a setter call whose argument equals the field's current value leaves
\* synced as it was.
C8_SameValueKeepsSynced ==
    (op.name \in SetterNames /\ ArgIsCurrent(op.name, op.arg, pre))
        => setting.synced = pre.synced

\* C9: modification_date >= creation_date in every state reached by
\* set_creation_date, set_modification_date and load_from_dict with dates.
C9_ModificationNotBeforeCreation ==
    setting.modification_date.v >= setting.creation_date.v

\* a modification date earlier than the creation date was set, and the
\* creation date went back with it
C9_Witness ==
    /\ op.name = "set_modification_date"
    /\ WellFormed(op.arg)
    /\ strptime(op.arg).v < pre.creation_date.v
    /\ setting.modification_date = strptime(op.arg)
    /\ setting.creation_date = setting.modification_date

\* the keys of the dict the round trip is about
RoundTripKeys ==
    { "url", "username", "legacyPassword", "notes", "iterations", "salt", "length",
      "cDate", "mDate", "usedCharacters", "reserved" }

\* C10: the dict of a record, loaded into a fresh record of the same domain,
\* gives a record whose dict agrees with it on every key it holds.
C10_RoundTrip ==
    op.name = "round_trip"
        => \A k \in DOMAIN op.arg \cap RoundTripKeys :
               /\ k \in DOMAIN to_dict(setting)
               /\ to_dict(setting)[k] = op.arg[k]

(***************************************************************************)
(* Properties of load_from_dict                                            *)
(***************************************************************************)
\* the attribute load_from_dict sets for a key
FieldOf(k, self) ==
    CASE k = "url" -> self.url
      [] k = "username" -> self.username
      [] k = "legacyPassword" -> self.legacy_password
      [] k = "notes" -> self.notes
      [] k = "iterations" -> self.iterations
      [] k = "salt" -> self.salt
      [] k = "length" -> self.length
      [] k = "cDate" -> self.creation_date
      [] k = "mDate" -> self.modification_date
      [] k = "usedCharacters" -> self.used_characters
      [] k = "reserved" -> self.reserved

\* C11 as stated: after load_from_dict(m) every field whose key is absent
\* from m, creation_date and modification_date included, has the value it
\* had before the call.
C11_AbsentKeysUntouched ==
    op.name = "load_from_dict"
        => \A k \in RoundTripKeys \ DOMAIN op.arg :
               FieldOf(k, setting) = FieldOf(k, pre)

\* C11 amended: after load_from_dict(m) every field other than the two dates
\* whose key is absent from m has the value it had before the call; a date
\* whose key is absent has its prior value unless the other date's key is in
\* m and the date loaded for it would leave modification_date earlier than
\* creation_date, and then it has the other date's new value.
C11_AbsentKeysUntouchedButDates ==
    op.name = "load_from_dict"
        => LET has(k) == k \in DOMAIN op.arg
           IN  /\ \A k \in RoundTripKeys \ (DOMAIN op.arg \cup {"cDate", "mDate"}) :
                      FieldOf(k, setting) = FieldOf(k, pre)
               /\ ~ has("cDate") =>
                      setting.creation_date =
                          IF has("mDate")
                                 /\ setting.modification_date.v < pre.creation_date.v
                          THEN setting.modification_date ELSE pre.creation_date
               /\ ~ has("mDate") =>
                      setting.modification_date =
                          IF has("cDate")
                                 /\ pre.modification_date.v < setting.creation_date.v
                          THEN setting.creation_date ELSE pre.modification_date

\* a dict of cDate alone was loaded, its date later than the modification
\* date, and the modification date went forward with the creation date
C11_Witness ==
    /\ op.name = "load_from_dict"
    /\ DOMAIN op.arg = {"cDate"}
    /\ WellFormed(op.arg["cDate"])
    /\ pre.modification_date.v < strptime(op.arg["cDate"]).v
    /\ setting.modification_date = strptime(op.arg["cDate"])

(***************************************************************************)
(* Properties of the sync client                                           *)
(***************************************************************************)
\* the exceptions a call of SyncManager leaves in op.ret
Exceptions == {"error", "ValueError", "TypeError", "AttributeError"}

\* data is decoded to a dict that lacks one of the four keys
LacksKey(data) ==
    /\ ~ decompress_raises(data)
    /\ ~ json_loads_raises(decode(decompress(data)))
    /\ json_loads(decode(decompress(data))).t = "dict"
    /\ ~ (SyncKeys \subseteq DOMAIN json_loads(decode(decompress(data))).v)

\* C12: load_binary_sync_settings of a payload whose dict lacks one of the
\* four keys raises nothing and leaves the four fields, the certificate file
\* (the attribute and the files of the system) and the channel handle as they
\* were; a pull() after it calls the handle that was there before, if any.
C12_IncompleteLoadChangesNothing ==
    (op.name = "load_binary_sync_settings" /\ LacksKey(op.arg))
        => /\ op.ret.t \notin Exceptions
           /\ manager = pre.manager
           /\ tempfiles = pre.tempfiles
           /\ op.called = << >>
           /\ IsSet(pre.manager.sync) =>
                  \A answer \in PullAnswers :
                      pull(manager, tempfiles, answer).called
                          = << ChannelCall(pre.manager.sync, "pull", None) >>

\* settings without the password were loaded into a client that had a handle
C12_Witness ==
    /\ op.name = "load_binary_sync_settings"
    /\ op.arg = Pack(Dict(Without(SettingsA, "password")))
    /\ IsSet(pre.manager.sync)
    /\ manager.username # Str("alice")
    /\ op.printed # << >>

\* the temporary files that are open
OpenFiles == {i \in 1..Len(tempfiles) : ~ tempfiles[i].closed}

\* the last call was a load_binary_sync_settings that stored the settings
LoadSucceeded ==
    /\ op.name = "load_binary_sync_settings"
    /\ op.ret.t \notin Exceptions
    /\ op.printed = << >>

\* C13: in every state reached by load_binary_sync_settings calls, whether
\* they store the settings or fail, at most one temporary file is open; a
\* load that stored the settings has closed the file that was there before;
\* the open file is the object's certificate file, it holds the text of the
\* certificate, and the channel handle was constructed with its path.
C13_OneCertificateFile ==
    /\ Cardinality(OpenFiles) <= 1
    /\ (LoadSucceeded /\ IsSet(pre.manager.certificate_file))
           => tempfiles[pre.manager.certificate_file.v].closed
    /\ \A i \in OpenFiles :
           /\ manager.certificate_file = File(i)
           /\ tempfiles[i].data = encode(manager.certificate)
           /\ IsSet(manager.sync) => manager.sync.v.certificate_path = i

\* C14: the client starts with no channel handle; a load_binary_sync_settings
\* that stored the settings leaves it with a handle; and no call
\* (load_binary_sync_settings that stores or fails, get_binary_sync_settings,
\* pull, push) takes a handle away from a client that has one.
C14_HandleStays ==
    /\ ~ IsSet(manager.sync)
    /\ [](LoadSucceeded => IsSet(manager.sync))
    /\ [][IsSet(manager.sync) => IsSet(manager'.sync)]_vars

\* a client with a handle was given settings without a key, data that does
\* not decompress, or settings whose certificate is no text, and has a
\* handle still
C14_Witness ==
    /\ op.name = "load_binary_sync_settings"
    /\ ~ LoadSucceeded
    /\ IsSet(pre.manager.sync)
    /\ IsSet(manager.sync)

SyncFields(self) ==
    [ k \in SyncKeys |->
        CASE k = "server-address" -> self.server_address
          [] k = "username" -> self.username
          [] k = "password" -> self.password
          [] k = "certificate" -> self.certificate ]

\* C16: get_binary_sync_settings returns b'' exactly when the client has no
\* channel handle; with a handle it returns data that decompresses and
\* decodes to the dict of the current values of the four fields, and
\* load_binary_sync_settings of that data leaves the four fields as they are.
C16_SettingsRoundTrip ==
    /\ op.name = "get_binary_sync_settings"
           => /\ (op.ret.t = "bytes" /\ op.ret.v = "") <=> ~ IsSet(manager.sync)
              /\ IsSet(manager.sync)
                     => /\ ~ decompress_raises(op.ret)
                        /\ ~ json_loads_raises(decode(decompress(op.ret)))
                        /\ json_loads(decode(decompress(op.ret)))
                               = Dict(SyncFields(manager))
    /\ ( /\ op.name = "load_binary_sync_settings"
         /\ IsSet(pre.manager.sync)
         /\ op.arg = get_binary_sync_settings(pre.manager, pre.tempfiles).ret )
           => SyncFields(manager) = SyncFields(pre.manager)

\* a client with a handle was given the data it had just returned, and
\* stored it: it has a new certificate file and the fields it had
C16_Witness ==
    /\ op.name = "load_binary_sync_settings"
    /\ IsSet(pre.manager.sync)
    /\ op.arg = get_binary_sync_settings(pre.manager, pre.tempfiles).ret
    /\ LoadSucceeded
    /\ manager.certificate_file # pre.manager.certificate_file
    /\ manager.username = Str("alice")

(***************************************************************************)
(* Further properties of the record                                        *)
(***************************************************************************)
\* C17: set_salt with a value that is neither bytes nor str raises TypeError
\* and leaves every field of the record, salt and synced included, as it
\* was; set_salt with bytes or str raises nothing.
C17_SaltTypeError ==
    op.name = "set_salt"
        => IF op.arg.t \in {"bytes", "str"}
           THEN op.ret = None
           ELSE op.ret = Raised("TypeError") /\ setting = pre

\* set_salt was called with an int on a record that was synced and held a
\* salt other than the default one
C17_Witness ==
    /\ op.name = "set_salt"
    /\ op.arg = PyInt(7)
    /\ op.ret = Raised("TypeError")
    /\ pre.synced
    /\ pre.salt # DEFAULT_SALT

\* C18: in every state use_custom_character_set() is false exactly when
\* get_character_set() is get_default_character_set(), and
\* get_default_character_set() is lower + upper + digits + extra, whatever
\* the record holds.
C18_CustomIffNotDefault ==
    /\ ~ use_custom_character_set(setting)
           <=> get_character_set(setting) = get_default_character_set
    /\ get_default_character_set
           = DEFAULT_CHARACTER_SET_LOWER_CASE \o DEFAULT_CHARACTER_SET_UPPER_CASE
                 \o DEFAULT_CHARACTER_SET_DIGITS \o DEFAULT_CHARACTER_SET_EXTRA

\* the record holds the characters of the default set in another order, and
\* use_custom_character_set() is true
C18_Witness ==
    /\ CharsOf(setting.used_characters) = CharsOf(get_default_character_set)
    /\ Len(setting.used_characters) = Len(get_default_character_set)
    /\ setting.used_characters # get_default_character_set
    /\ use_custom_character_set(setting)

\* x is a str that is not empty
NonEmptyStr(x) == x.t = "str" /\ x.v # ""

\* C19: the dict to_dict() returns has the keys domain, iterations, length,
\* cDate, mDate and usedCharacters; it has url, username, legacyPassword,
\* notes, reserved exactly when the field is a non-empty str, and salt
\* exactly when the salt is not empty; it has no other key.
C19_ToDictKeys ==
    op.name = "to_dict"
        => /\ {"domain", "iterations", "length", "cDate", "mDate", "usedCharacters"}
                  \subseteq DOMAIN op.ret
           /\ "url" \in DOMAIN op.ret <=> NonEmptyStr(setting.url)
           /\ "username" \in DOMAIN op.ret <=> NonEmptyStr(setting.username)
           /\ "legacyPassword" \in DOMAIN op.ret <=> NonEmptyStr(setting.legacy_password)
           /\ "notes" \in DOMAIN op.ret <=> NonEmptyStr(setting.notes)
           /\ "reserved" \in DOMAIN op.ret <=> NonEmptyStr(setting.reserved)
           /\ "salt" \in DOMAIN op.ret <=> setting.salt # Bytes("")
           /\ DOMAIN op.ret \subseteq RoundTripKeys \cup {"domain"}

\* to_dict() of a record with a url, an empty user name and an empty salt
C19_Witness ==
    /\ op.name = "to_dict"
    /\ NonEmptyStr(setting.url)
    /\ setting.username = Str("")
    /\ setting.salt = Bytes("")
    /\ "url" \in DOMAIN op.ret
    /\ "username" \notin DOMAIN op.ret
    /\ "salt" \notin DOMAIN op.ret

\* the default character set without the alphabet of the class a toggle is
\* about: the three other alphabets in the canonical order
DefaultWithout(name) ==
    (IF name = "set_use_lower_case" THEN << >> ELSE DEFAULT_CHARACTER_SET_LOWER_CASE)
        \o (IF name = "set_use_upper_case" THEN << >> ELSE DEFAULT_CHARACTER_SET_UPPER_CASE)
        \o (IF name = "set_use_digits" THEN << >> ELSE DEFAULT_CHARACTER_SET_DIGITS)
        \o (IF name = "set_use_extra" THEN << >> ELSE DEFAULT_CHARACTER_SET_EXTRA)

\* C20: set_use_X(False) on a record that holds the default character set,
\* synced or not, leaves the three other alphabets in the canonical order in
\* used_characters, use_X() false and synced false.
C20_OffFromDefault ==
    ( /\ op.name \in ToggleNames
      /\ op.arg = FALSE
      /\ pre.used_characters = get_default_character_set )
        => /\ setting.used_characters = DefaultWithout(op.name)
           /\ ~ Uses(op.name, setting)
           /\ ~ setting.synced

\* the upper case letters were switched off in a synced record that held the
\* default set
C20_Witness ==
    /\ op.name = "set_use_upper_case"
    /\ op.arg = FALSE
    /\ pre.used_characters = get_default_character_set
    /\ pre.synced
    /\ setting.used_characters
           = DEFAULT_CHARACTER_SET_LOWER_CASE \o DEFAULT_CHARACTER_SET_DIGITS
                 \o DEFAULT_CHARACTER_SET_EXTRA
    /\ ~ setting.synced

\* the slice of s that starts at the canonical offset of the class a toggle
\* is about and has the length of the class's default alphabet
Window(name, s) == Slice(s, OffsetOf(name), OffsetOf(name) + Len(AlphabetOf(name)))

\* C21: for each of the four classes use_X() is true exactly when the slice
\* of used_characters at X's canonical offset, of the length of X's default
\* alphabet, is that alphabet in order, whatever comes before and after it.
C21_WindowTest ==
    \A name \in ToggleNames :
        Uses(name, setting)
            <=> Window(name, setting.used_characters) = AlphabetOf(name)

(***************************************************************************)
(* Properties of the dates                                                 *)
(***************************************************************************)
\* the date a date setter assigns for its argument: the date the str stands
\* for, or the time of the call when the str is malformed or there is none
DateGiven(arg, now) ==
    IF arg.t = "str" /\ WellFormed(arg) THEN strptime(arg) ELSE Datetime(now)

\* the last call was a date setter and the date it assigned, with the other
\* date as it was, has the modification date earlier than the creation date
WouldViolate ==
    \/ /\ op.name = "set_creation_date"
       /\ pre.modification_date.v < DateGiven(op.arg, clock).v
    \/ /\ op.name = "set_modification_date"
       /\ DateGiven(op.arg, clock).v < pre.creation_date.v

\* C22 as stated: when a call of set_creation_date or set_modification_date
\* would leave modification_date earlier than creation_date, creation_date is
\* set equal to modification_date, and modification_date is the one the call
\* would have left without the correction.
C22_CreationDateCorrected ==
    WouldViolate
        => /\ setting.creation_date = setting.modification_date
           /\ setting.modification_date =
                  IF op.name = "set_modification_date"
                  THEN DateGiven(op.arg, clock) ELSE pre.modification_date

\* C22 amended: when a call of set_creation_date or set_modification_date
\* would leave modification_date earlier than creation_date, the date the
\* call assigned stays and the other date is set equal to it:
\* set_modification_date moves creation_date back, set_creation_date moves
\* modification_date forward.
C22_OtherDateCorrected ==
    WouldViolate
        => /\ setting.creation_date = DateGiven(op.arg, clock)
           /\ setting.modification_date = DateGiven(op.arg, clock)

\* a creation date later than the modification date was set, and the
\* modification date is now that date
C22_Witness ==
    /\ op.name = "set_creation_date"
    /\ WellFormed(op.arg)
    /\ pre.modification_date.v < strptime(op.arg).v
    /\ setting.creation_date = strptime(op.arg)
    /\ setting.modification_date = strptime(op.arg)
    /\ setting.modification_date # pre.modification_date

C24_OnlySetSyncedRaises ==
    /\ ~ setting.synced
    /\ [][(~ setting.synced /\ setting'.synced)
              => (op'.name = "set_synced" /\ op'.arg = TRUE)]_vars

\* a dict of all keys was loaded into a record that is not synced and holds
\* these values already: nothing changed, and the record is still not synced
C24_Witness ==
    /\ op.name = "load_from_dict"
    /\ DOMAIN op.arg = FieldKeys
    /\ ~ pre.synced
    /\ Observable(setting) = Observable(pre)
    /\ ~ setting.synced

====
